---- MODULE Spec2Model ----
(***************************************************************************)
(* SleepTracker (src/main.py): a Qt shell (SleepMonitorApp) that starts an *)
(* AudioMonitor thread listening for loud audio blocks and, on a spike,    *)
(* a RecorderThread that captures video and audio for a fixed duration,    *)
(* retimes the video when frames were dropped, and muxes both into         *)
(* sleep_<ts>.mp4.                                                         *)
(*                                                                         *)
(* Threads of the model: the GUI thread (the handlers start_mon, stop_mon, *)
(* on_spike, on_done, closeEvent run there, one at a time), one QThread    *)
(* per AudioMonitor, the audio callback of each open input stream, and one *)
(* QThread per RecorderThread.  A signal emitted off the GUI thread        *)
(* (spike_detected from the monitor's audio callback, finished_recording   *)
(* from the recorder thread) reaches its slot through a queued connection: *)
(* it is posted to the GUI thread's event queue and the slot runs when the *)
(* event loop takes it out.  The text of the status label is written by    *)
(* the handlers and read by none of them: the model leaves it out.         *)
(***************************************************************************)
EXTENDS Integers, Sequences, FiniteSets, TLC

\* ---------------------------------------------------------------- bounds
MaxMon == 2        \* AudioMonitor objects created in one run
MaxRec == 2        \* RecorderThread objects alive at once
MaxQueue == 2      \* events pending in the GUI thread's event queue
MaxTime == 10      \* seconds of wall clock covered by a run

\* ------------------------------------------------------ program constants
fps_target == 20

\* the values the shell's widgets are read at (slider -60..0, dur_box 5..600)
SliderStart == -30    \* line 83: self.slider.setValue(-30)
Thresholds == {SliderStart, -20}
Durations == {5, 10}
\* levels of audio blocks, in dB
Levels == {-30, -20}
\* frames a capture loop whose camera works falls short of
\* fps_target * duration (failed reads, iterations lost to lateness; -1:
\* the one iteration more that the rounding of the deadlines can leave
\* room for, see LoopBody)
Dropped == {-1, 0, 1}

MonIds == 1..MaxMon
RecIds == 1..MaxRec

VARIABLES
    now,         \* wall clock, in seconds
    mon,         \* SleepMonitorApp.mon: a monitor id, 0 for None
    rec,         \* SleepMonitorApp.rec: a recorder id, 0 for None
    rec_active,  \* SleepMonitorApp.rec_active
    ui,          \* where the GUI thread is: "idle" (in the event loop),
                 \* "stop_wait"/"close_wait" (inside mon.wait()), "closed"
    events,      \* the GUI thread's queue of posted signal deliveries
    mons,        \* the AudioMonitor objects and their threads
    recs,        \* the RecorderThread objects and their threads
    files,       \* the working directory
    feed,        \* a test feed: the blocks a harness plays to a monitor's
                 \* callback, those played so far, and the ones that fired
    slider,      \* SleepMonitorApp.slider: the value of the threshold slider
    loop         \* the capture loop of a recorder taken alone, iteration by
                 \* iteration (lines 43-53)

vars == <<now, mon, rec, rec_active, ui, events, mons, recs, files,
          feed, slider, loop>>

\* ------------------------------------------------------------- helpers
Abs(x) == IF x < 0 THEN -x ELSE x

File(kind, ts) == [kind |-> kind, ts |-> ts]
NoFile == File("none", 0)
TempKinds == {"v", "a", "vfix"}
TempFiles(ts) == {File(k, ts) : k \in TempKinds}

NoMon == [st |-> "none", running |-> FALSE, threshold_db |-> 0]
\* a monitor whose thread has ended and whose object the shell has dropped
Joined == [st |-> "joined", running |-> FALSE, threshold_db |-> 0]
NoRec == [st |-> "none", duration |-> 0, ts |-> 0, v_tmp |-> "v",
          cap_opened |-> FALSE, stream |-> "none",
          audio_frames |-> "empty", frames_written |-> 0,
          a_writes |-> 0, retime |-> "none", rate |-> 0,
          mux |-> "none", mux_in |-> {}]

NoFeed == [tape |-> <<>>, heard |-> <<>>, fired |-> <<>>]
NoLoop == [pc |-> "none"]

SpikeEvent(m) == [type |-> "spike", src |-> m, f |-> NoFile]
DoneEvent(r, final) == [type |-> "done", src |-> r, f |-> final]

Init ==
    /\ now = 0
    /\ mon = 0 /\ rec = 0 /\ rec_active = FALSE
    /\ ui = "idle"
    /\ events = <<>>
    /\ mons = [m \in MonIds |-> NoMon]
    /\ recs = [r \in RecIds |-> NoRec]
    /\ files = {}
    /\ feed = NoFeed
    /\ slider = SliderStart
    /\ loop = NoLoop

\* The process runs until the window is closed (app.exec() returns, line 104).
AppRunning == ui # "closed"

\* ------------------------------------------------------- AudioMonitor
\* AudioMonitor.run, lines 17-22: the thread is scheduled, sets running
\* and opens and starts the input stream, or sd.InputStream raises (no
\* input device) and run() ends with the exception.
MonRun(m) ==
    /\ AppRunning
    /\ mons[m].st = "started"
    /\ \E ok \in BOOLEAN :
         mons' = [mons EXCEPT ![m].st = IF ok THEN "listening" ELSE "finished",
                              ![m].running = TRUE]
    /\ UNCHANGED <<feed, slider, loop, now, mon, rec, rec_active, ui, events, recs, files>>

\* line 23: `while self.running: sd.sleep(100)`; once running is seen
\* False the with-block closes the stream and run() returns.
MonLoop(m) ==
    /\ AppRunning
    /\ mons[m].st = "listening"
    /\ IF mons[m].running
         THEN UNCHANGED mons
         ELSE mons' = [mons EXCEPT ![m].st = "finished"]
    /\ UNCHANGED <<feed, slider, loop, now, mon, rec, rec_active, ui, events, recs, files>>

\* lines 19-21: what cb decides for a block of level db.
SpikeOff(running, threshold_db, db) == running /\ db >= threshold_db
Spike(running, threshold_db, db) == running /\ db > threshold_db

\* lines 18-21: the stream's callback receives a block; the block is given
\* by its level 20*log10(rms + 1e-6).  The emitted signal is posted to the
\* GUI thread (queued connection: the callback runs on the audio thread).
cb(m, db) ==
    /\ AppRunning
    /\ mons[m].st = "listening"
    /\ IF Spike(mons[m].running, mons[m].threshold_db, db)
         THEN /\ Len(events) < MaxQueue
              /\ events' = Append(events, SpikeEvent(m))
         ELSE UNCHANGED events
    /\ UNCHANGED <<slider, loop, now, mon, rec, rec_active, ui, mons, recs, files>>

\* The microphone delivers a block of any level.
MonCb(m, db) == cb(m, db) /\ UNCHANGED feed

\* AudioMonitor.stop, line 24.
stop(m) == [mons EXCEPT ![m].running = FALSE]

\* ---------------------------------------------------- SleepMonitorApp
FreeMons == {m \in MonIds : mons[m].st = "none"}

\* start_mon, lines 89-91: a new AudioMonitor with the slider's value,
\* connected and started; the previous object, if any, is only forgotten.
start_mon ==
    /\ ui = "idle"
    /\ FreeMons # {}
    /\ LET m == CHOOSE x \in FreeMons : \A y \in FreeMons : x <= y IN
         /\ mons' = [mons EXCEPT ![m] = [st |-> "started", running |-> FALSE,
                                         threshold_db |-> slider]]
         /\ mon' = m
    /\ UNCHANGED <<feed, slider, loop, now, rec, rec_active, ui, events, recs, files>>

\* The user moves the slider (line 86: the connected lambda only rewrites
\* the label next to it).
set_slider_live(v) ==
    /\ ui = "idle"
    /\ v # slider
    /\ slider' = v
    /\ mons' = [m \in MonIds |->
                 IF mons[m].st \in {"started", "listening"}
                   THEN [mons[m] EXCEPT !.threshold_db = v]
                   ELSE mons[m]]
    /\ UNCHANGED <<feed, loop, now, mon, rec, rec_active, ui, events,
                   recs, files>>

set_slider(v) ==
    /\ ui = "idle"
    /\ v # slider
    /\ slider' = v
    /\ UNCHANGED <<feed, loop, now, mon, rec, rec_active, ui, events, mons,
                   recs, files>>

\* stop_mon, lines 92-93, up to mon.wait(): the GUI thread blocks in wait.
stop_mon_cancel ==
    /\ ui = "idle"
    /\ IF mon # 0
         THEN /\ mons' = stop(mon)
              /\ ui' = "stop_wait"
         ELSE UNCHANGED <<mons, ui>>
    /\ rec_active' = FALSE
    /\ UNCHANGED <<feed, slider, loop, now, mon, rec, events, recs, files>>

stop_mon ==
    /\ ui = "idle"
    /\ IF mon # 0
         THEN /\ mons' = stop(mon)
              /\ ui' = "stop_wait"
         ELSE UNCHANGED <<mons, ui>>
    /\ UNCHANGED <<feed, slider, loop, now, mon, rec, rec_active, events, recs, files>>

\* stop_mon, line 93, from the return of mon.wait(): the thread has ended.
stop_mon_return ==
    /\ ui = "stop_wait"
    /\ mons[mon].st = "finished"
    /\ mons' = [mons EXCEPT ![mon] = Joined]
    /\ mon' = 0
    /\ ui' = "idle"
    /\ UNCHANGED <<feed, slider, loop, now, rec, rec_active, events, recs, files>>

\* Lines 99 and 104: once the window has closed app.exec() returns and
\* sys.exit ends the process: its objects, threads and pending events are
\* gone, the files stay.
Exit ==
    /\ ui' = "closed"
    /\ mon' = 0 /\ rec' = 0 /\ rec_active' = FALSE
    /\ events' = <<>>
    /\ mons' = [m \in MonIds |-> NoMon]
    /\ recs' = [r \in RecIds |-> NoRec]
    /\ UNCHANGED <<feed, slider, loop, now, files>>

\* closeEvent, line 99: stop_mon, up to mon.wait() if there is a monitor.
closeEvent ==
    /\ ui = "idle"
    /\ IF mon # 0
         THEN /\ mons' = stop(mon)
              /\ ui' = "close_wait"
              /\ UNCHANGED <<feed, slider, loop, now, mon, rec, rec_active, events,
                             recs, files>>
         ELSE Exit

\* closeEvent, from the return of mon.wait().
closeEvent_return ==
    /\ ui = "close_wait"
    /\ mons[mon].st = "finished"
    /\ Exit

\* A recorder whose thread has ended.
Ended(r) == recs[r].st \in {"done", "failed"}
\* A recording session in progress: run() has been started and has neither
\* emitted finished_recording nor died.
InProgress(r) == recs[r].st \notin {"none", "done", "failed"}

\* The recorder objects left once self.rec is rebound: the old object is
\* released if its thread has ended.
Released == [r \in RecIds |-> IF r = rec /\ Ended(r) THEN NoRec ELSE recs[r]]
FreeRecs == {r \in RecIds : Released[r].st = "none"}

\* on_spike, line 95: the single-recording gate.
GateOff == FALSE
Gate == rec_active

\* on_spike, lines 94-97, run by the event loop for a queued spike_detected.
on_spike(m) ==
    /\ ui = "idle"
    /\ events # <<>>
    /\ Head(events) = SpikeEvent(m)
    /\ IF Gate
         THEN /\ events' = Tail(events)
              /\ UNCHANGED <<rec, rec_active, recs>>
         ELSE /\ FreeRecs # {}
              /\ LET r == CHOOSE x \in FreeRecs : \A y \in FreeRecs : x <= y IN
                 \E d \in Durations :
                   /\ now + d <= MaxTime
                   /\ recs' = [Released EXCEPT ![r] =
                                 [NoRec EXCEPT !.st = "started", !.duration = d]]
                   /\ rec' = r
              /\ events' = Tail(events)
              /\ rec_active' = TRUE
    /\ UNCHANGED <<feed, slider, loop, now, mon, ui, mons, files>>

\* on_done, line 98, run by the event loop for a queued finished_recording.
on_done_keep(r) ==
    /\ ui = "idle"
    /\ events # <<>>
    /\ Head(events).type = "done" /\ Head(events).src = r
    /\ events' = Tail(events)
    /\ UNCHANGED <<feed, slider, loop, now, mon, rec, rec_active, ui, mons,
                   recs, files>>

on_done(r) ==
    /\ ui = "idle"
    /\ events # <<>>
    /\ Head(events).type = "done" /\ Head(events).src = r
    /\ rec_active' = FALSE
    /\ events' = Tail(events)
    /\ UNCHANGED <<feed, slider, loop, now, mon, rec, ui, mons, recs, files>>

\* ------------------------------------------- floating point (binary64)
\* actual_fps = frames_written / elapsed is a Python float: the quotient
\* n/d rounded to the nearest binary64 (ties to even).  For n/d in
\* [2^e, 2^(e+1)) the spacing is 2^(e-52); with k = 52 - e the float is
\* round(n * 2^k / d) / 2^k.  FloatErr gives fl(n/d) - n/d exactly, as a
\* numerator over d * 2^k, from remainders modulo d and 2d.
RECURSIVE Pow2Mod(_, _)
Pow2Mod(k, m) ==
    IF k = 0 THEN 1 % m
    ELSE LET h == Pow2Mod(k \div 2, m) IN
         IF k % 2 = 0 THEN (h * h) % m ELSE (2 * h * h) % m

RECURSIVE Binade(_, _)
Binade(n, d) ==
    IF n >= 2 * d THEN Binade(n, 2 * d) + 1
    ELSE IF n < d THEN Binade(2 * n, d) - 1
    ELSE 0

FloatScale(n, d) == 52 - Binade(n, d)

FloatErr(n, d) ==
    IF n = 0 THEN 0
    ELSE LET k == FloatScale(n, d)
             r == (n * Pow2Mod(k, d)) % d
             r2 == (n * Pow2Mod(k, 2 * d)) % (2 * d)
             odd == r2 >= d
         IN  IF r = 0 THEN 0
             ELSE IF 2 * r > d \/ (2 * r = d /\ odd) THEN d - r
             ELSE -r

\* line 62, `abs(actual_fps - fps_target) > 0.1`, for actual_fps = n/d.
\* When |n/d - 20| differs from 1/10 it differs by at least 1/(10 d), far
\* more than the rounding of the quotient and of the literal 0.1 (below
\* 2^-48), so the exact comparison decides.  When |n/d - 20| = 1/10 the
\* quotient lies in [16, 32) (scale 2^48), fl(n/d) - 20 is exact, and
\* 0.1 is the float 1/10 + FloatErr(1, 10) / (10 * 2^56): the roundings
\* decide.
NeedsCorrection(n, d) ==
    LET c == 10 * Abs(n - fps_target * d) IN
    IF c # d THEN c > d
    ELSE LET s == IF n > fps_target * d THEN 1 ELSE -1 IN
         s * FloatErr(n, d) * 10 * 256 > FloatErr(1, 10) * d

\* line 64, f'{actual_fps:.4f}': the float in ten-thousandths, correctly
\* rounded (a decimal tie is decided by the float's own rounding, and is
\* rounded to even when the float is the exact quotient).
FormatRate(n, d) ==
    LET q == (n * 10000) \div d
        r == (n * 10000) % d
        e == FloatErr(n, d)
    IN  IF 2 * r > d THEN q + 1
        ELSE IF 2 * r < d THEN q
        ELSE IF e > 0 THEN q + 1
        ELSE IF e < 0 THEN q
        ELSE IF q % 2 = 0 THEN q ELSE q + 1

\* ------------------------------------------------------ RecorderThread
\* line 31, strftime('%Y%m%d_%H%M%S'): the wall clock to the second.
StampMinutes(t) == t \div 60
Stamp(t) == t

\* lines 31-37: the timestamp is taken, the camera and the video writer
\* are constructed.  Neither constructor raises: a camera that cannot be
\* opened yields a capture whose reads fail.  The writer creates
\* v_<ts>.mp4 in the working directory.
RecBegin(r) ==
    /\ AppRunning
    /\ recs[r].st = "started"
    /\ \E cap_ok \in BOOLEAN :
         recs' = [recs EXCEPT ![r].st = "opened", ![r].ts = Stamp(now),
                              ![r].cap_opened = cap_ok]
    /\ files' = files \cup {File("v", Stamp(now))}
    /\ UNCHANGED <<feed, slider, loop, now, mon, rec, rec_active, ui, events, mons>>

\* lines 39-41: the audio input stream is opened and started, or
\* sd.InputStream raises and run() ends with the exception.
RecOpenAudio(r) ==
    /\ AppRunning
    /\ recs[r].st = "opened"
    /\ \E ok \in BOOLEAN :
         recs' = IF ok
                   THEN [recs EXCEPT ![r].st = "capturing", ![r].stream = "open"]
                   ELSE [recs EXCEPT ![r].st = "failed",
                                     ![r].stream = "unavailable"]
    /\ UNCHANGED <<feed, slider, loop, now, mon, rec, rec_active, ui, events, mons, files>>

\* line 40, audio_cb: a block is appended while the stream is open.  Of
\* the accumulated list the model keeps whether it is empty.
RecAudioCb(r) ==
    /\ AppRunning
    /\ recs[r].stream = "open"
    /\ recs' = [recs EXCEPT ![r].audio_frames = "some"]
    /\ UNCHANGED <<feed, slider, loop, now, mon, rec, rec_active, ui, events, mons, files>>

\* lines 43-54, the paced capture loop as a whole: it lasts `duration`
\* seconds and writes one frame per successful read (SpecLoop takes the
\* loop iteration by iteration).
RecCapture(r) ==
    /\ AppRunning
    /\ recs[r].st = "capturing"
    /\ LET d == recs[r].duration IN
       /\ now' = now + d
       /\ \E dropped \in Dropped :
            recs' = [recs EXCEPT ![r].st = "captured",
                       ![r].frames_written =
                          IF recs[r].cap_opened THEN fps_target * d - dropped
                          ELSE 0]
    /\ UNCHANGED <<feed, slider, loop, mon, rec, rec_active, ui, events, mons, files>>

\* line 57: stream.stop(); cap.release(); vw.release().
RecReleaseNoStop(r) ==
    /\ AppRunning
    /\ recs[r].st = "captured"
    /\ recs' = [recs EXCEPT ![r].st = "released"]
    /\ UNCHANGED <<feed, slider, loop, now, mon, rec, rec_active, ui, events,
                   mons, files>>

RecRelease(r) ==
    /\ AppRunning
    /\ recs[r].st = "captured"
    /\ recs' = [recs EXCEPT ![r].st = "released", ![r].stream = "stopped"]
    /\ UNCHANGED <<feed, slider, loop, now, mon, rec, rec_active, ui, events, mons, files>>

\* line 58: np.concatenate raises on an empty list; sf.write creates the
\* audio file or raises.
RecFlush(r) ==
    /\ AppRunning
    /\ recs[r].st = "released"
    /\ \E ok \in BOOLEAN :
         IF recs[r].audio_frames # "empty" /\ ok
           THEN /\ recs' = [recs EXCEPT ![r].st = "flushed",
                                        ![r].a_writes = @ + 1]
                /\ files' = files \cup {File("a", recs[r].ts)}
           ELSE /\ recs' = [recs EXCEPT ![r].st = "failed"]
                /\ UNCHANGED files
    /\ UNCHANGED <<feed, slider, loop, now, mon, rec, rec_active, ui, events, mons>>

\* An external ffmpeg run: it can exit 0 only if its inputs exist; its
\* exit status is not looked at (no check=True, returncode unused).
ToolResults(inputs) == IF inputs \subseteq files THEN {"ok", "fail"} ELSE {"fail"}
\* The output file of a run: written on success, possibly left behind by
\* a failed run.
ToolOutputs(rc, out) == IF rc = "ok" THEN {{out}} ELSE {{}, {out}}

\* lines 61-65: actual_fps, the decision, and the retiming run.
RecAdjust(r) ==
    /\ AppRunning
    /\ recs[r].st = "flushed"
    /\ LET d == recs[r].duration
           n == recs[r].frames_written
           ts == recs[r].ts
           needs == IF d # 0 THEN NeedsCorrection(n, d) ELSE FALSE
       IN  IF needs
             THEN \E rc \in ToolResults({File("v", ts)}) :
                  \E out \in ToolOutputs(rc, File("vfix", ts)) :
                    /\ recs' = [recs EXCEPT ![r].st = "retimed",
                                            ![r].retime = rc,
                                            ![r].rate = FormatRate(n, d)]
                    /\ files' = files \cup out
             ELSE /\ recs' = [recs EXCEPT ![r].st = "adjusted"]
                  /\ UNCHANGED files
    /\ UNCHANGED <<feed, slider, loop, now, mon, rec, rec_active, ui, events, mons>>

\* line 66: os.remove(v_tmp); v_tmp = fixed_video.  os.remove raises
\* FileNotFoundError on a missing file.
RecRemoveRawKeepName(r) ==
    /\ AppRunning
    /\ recs[r].st = "retimed"
    /\ LET raw == File("v", recs[r].ts) IN
       IF raw \in files
         THEN /\ files' = files \ {raw}
              /\ recs' = [recs EXCEPT ![r].st = "adjusted"]
         ELSE /\ recs' = [recs EXCEPT ![r].st = "failed"]
              /\ UNCHANGED files
    /\ UNCHANGED <<feed, slider, loop, now, mon, rec, rec_active, ui, events,
                   mons>>

RecRemoveRaw(r) ==
    /\ AppRunning
    /\ recs[r].st = "retimed"
    /\ LET raw == File("v", recs[r].ts) IN
       IF raw \in files
         THEN /\ files' = files \ {raw}
              /\ recs' = [recs EXCEPT ![r].st = "adjusted", ![r].v_tmp = "vfix"]
         ELSE /\ recs' = [recs EXCEPT ![r].st = "failed"]
              /\ UNCHANGED files
    /\ UNCHANGED <<feed, slider, loop, now, mon, rec, rec_active, ui, events, mons>>

\* lines 69-72: the muxing run.
RecMux(r) ==
    /\ AppRunning
    /\ recs[r].st = "adjusted"
    /\ LET ts == recs[r].ts
           inputs == {File(recs[r].v_tmp, ts), File("a", ts)}
       IN
       \E rc \in ToolResults(inputs) :
       \E out \in ToolOutputs(rc, File("sleep", ts)) :
         /\ recs' = [recs EXCEPT ![r].st = "muxed", ![r].mux = rc,
                                 ![r].mux_in = inputs]
         /\ files' = files \cup out
    /\ UNCHANGED <<feed, slider, loop, now, mon, rec, rec_active, ui, events, mons>>

\* line 73: os.remove(v_tmp); os.remove(a_tmp).
RemoveTempsKeepAudio(ts, v_tmp) == files \ {File(v_tmp, ts)}
RemoveTemps(ts, v_tmp) == files \ {File(v_tmp, ts), File("a", ts)}

RecCleanup(r) ==
    /\ AppRunning
    /\ recs[r].st = "muxed"
    /\ LET ts == recs[r].ts
           video == File(recs[r].v_tmp, ts)
           audio == File("a", ts)
       IN  IF video \notin files
             THEN /\ recs' = [recs EXCEPT ![r].st = "failed"]
                  /\ UNCHANGED files
             ELSE IF audio \notin files
             THEN /\ recs' = [recs EXCEPT ![r].st = "failed"]
                  /\ files' = files \ {video}
             ELSE /\ recs' = [recs EXCEPT ![r].st = "cleaned"]
                  /\ files' = RemoveTemps(ts, recs[r].v_tmp)
    /\ UNCHANGED <<feed, slider, loop, now, mon, rec, rec_active, ui, events, mons>>

\* line 74: finished_recording.emit(final), posted to the GUI thread;
\* run() returns.
RecEmit(r) ==
    /\ AppRunning
    /\ recs[r].st = "cleaned"
    /\ Len(events) < MaxQueue
    /\ events' = Append(events, DoneEvent(r, File("sleep", recs[r].ts)))
    /\ recs' = [recs EXCEPT ![r].st = "done"]
    /\ UNCHANGED <<feed, slider, loop, now, mon, rec, rec_active, ui, mons, files>>

\* ------------------------------------------------------ specification
MonStep == \E m \in MonIds : MonRun(m) \/ MonLoop(m)
AudioBlock == \E m \in MonIds, db \in Levels : MonCb(m, db)
\* RecorderThread.run, lines 30-74: the next step of recorder r's thread.
RecRun(r) ==
    \/ RecBegin(r) \/ RecOpenAudio(r) \/ RecCapture(r) \/ RecRelease(r)
    \/ RecFlush(r) \/ RecAdjust(r) \/ RecRemoveRaw(r) \/ RecMux(r)
    \/ RecCleanup(r) \/ RecEmit(r)
RecStep == \E r \in RecIds : RecRun(r)
RecAudioBlock == \E r \in RecIds : RecAudioCb(r)
Deliver == (\E m \in MonIds : on_spike(m)) \/ (\E r \in RecIds : on_done(r))
WaitReturn == stop_mon_return \/ closeEvent_return

Next ==
    \/ start_mon
    \/ stop_mon
    \/ closeEvent
    \/ WaitReturn
    \/ Deliver
    \/ MonStep
    \/ AudioBlock
    \/ RecStep
    \/ RecAudioBlock

Spec == Init /\ [][Next]_vars

\* The threads are scheduled and the event loop runs: a thread that can
\* take a step eventually takes it, a posted event is eventually handled,
\* a wait() whose thread has ended returns.  Nothing obliges the user to
\* click or the microphone to deliver a block.
FairSpec ==
    /\ Spec
    /\ WF_vars(MonStep)
    /\ WF_vars(RecStep)
    /\ WF_vars(Deliver)
    /\ WF_vars(WaitReturn)

\* ------------------------------------------- the monitor under a feed
\* A monitor that is listening (start_mon, then run() up to its loop) is
\* played a given sequence of blocks; the shell takes the posted spikes and
\* may stop the monitor at any point.
MaxTape == 4
TapeLevels == {-40, -35, -30, -20, -10}
FeedThresholds == {-30, -20}
Tapes == UNION {[1..k -> TapeLevels] : k \in 0..MaxTape}

FeedInit ==
    /\ now = 0
    /\ mon = 1 /\ rec = 0 /\ rec_active = FALSE
    /\ ui = "idle"
    /\ events = <<>>
    /\ \E th \in FeedThresholds :
         mons = [m \in MonIds |->
                   IF m = 1 THEN [st |-> "listening", running |-> TRUE,
                                  threshold_db |-> th]
                   ELSE NoMon]
    /\ recs = [r \in RecIds |-> NoRec]
    /\ files = {}
    /\ \E t \in Tapes : feed = [tape |-> t, heard |-> <<>>, fired |-> <<>>]
    /\ slider = SliderStart
    /\ loop = NoLoop

\* The next block of the feed reaches the callback of monitor m; the feed
\* notes the block, whether the monitor was running and its threshold, and
\* the block's index if the callback emitted spike_detected for it.
FeedCb(m) ==
    /\ feed.tape # <<>>
    /\ cb(m, Head(feed.tape))
    /\ feed' = [tape |-> Tail(feed.tape),
                heard |-> Append(feed.heard,
                                 [db |-> Head(feed.tape),
                                  active |-> mons[m].running,
                                  th |-> mons[m].threshold_db]),
                fired |-> IF events' # events
                            THEN Append(feed.fired, Len(feed.heard))
                            ELSE feed.fired]

FeedBlock == \E m \in MonIds : FeedCb(m)
FeedSpike == \E m \in MonIds : on_spike(m)
FeedLoop == \E m \in MonIds : MonLoop(m)

FeedNext ==
    \/ FeedBlock
    \/ FeedSpike
    \/ stop_mon
    \/ FeedLoop
    \/ stop_mon_return

SpecFeed == FeedInit /\ [][FeedNext]_vars

\* --------------------------------------- the frame-rate decision alone
\* A recorder that has flushed its audio (line 58 done), for every duration
\* of FpsDurations and every frame count the capture loop can leave.
MaxFpsDuration == 20
FpsDurations == {5, 10, MaxFpsDuration}

FpsInit ==
    \E d \in FpsDurations, n \in 0..(fps_target * MaxFpsDuration + 1) :
      /\ n <= fps_target * d + 1
      /\ now = d
      /\ mon = 1 /\ rec = 1 /\ rec_active = TRUE
      /\ ui = "idle"
      /\ events = <<>>
      /\ mons = [m \in MonIds |->
                   IF m = 1 THEN [st |-> "listening", running |-> TRUE,
                                  threshold_db |-> -30]
                   ELSE NoMon]
      /\ recs = [r \in RecIds |->
                   IF r = 1
                     THEN [NoRec EXCEPT !.st = "flushed", !.duration = d,
                                        !.cap_opened = TRUE,
                                        !.stream = "stopped",
                                        !.audio_frames = "some",
                                        !.frames_written = n]
                     ELSE NoRec]
      /\ files = {File("v", 0), File("a", 0)}
      /\ feed = NoFeed
    /\ slider = SliderStart
    /\ loop = NoLoop

FpsNext == \E r \in RecIds : RecAdjust(r)

SpecFps == FpsInit /\ [][FpsNext]_vars

\* ------------------------------------------ the capture loop, lines 43-53
\* The loop of one recorder, iteration by iteration, on the clock
\* time.perf_counter().  Clock readings and deadlines are binary64 numbers
\* of seconds.  The session starts at the reading 2^E (line 44) and stays
\* below 2^(E+1), where the floats are the multiples of ulp = 2^(E-52).
\* A time is kept as its distance from the start, Time(f, e): f twentieths
\* of a second (1/20 s = 1/fps_target, not a float) plus e twentieths of an
\* ulp; e stays within a few thousand while 1/20 s is 2^(52-E) twentieths
\* of an ulp, so times compare by f first.  Time(f, e) is a float when
\* f * 2^(52-E) + e is a multiple of 20.
MaxLoopDuration == 5
LoopDurations == {MaxLoopDuration}
\* the starts 16.0 and 32.0
LoopBinades == {4, 5}

Time(f, e) == [f |-> f, e |-> e]
Before(x, y) == x.f < y.f \/ (x.f = y.f /\ x.e < y.e)

\* 1/20 s in twentieths of an ulp, modulo 20.
UlpMod(E) == Pow2Mod(52 - E, 20)

\* lines 43 and 51, next_frame_t += frame_interval: frame_interval is the
\* float of 1/20 (above 1/20 by less than a twentieth of an ulp of the
\* sum), the sum is rounded to the nearest multiple of the ulp: what the
\* addition adds beyond 1/20 s, in twentieths of an ulp.
\* (rho stands for UlpMod(E), which the loop keeps next to E.)
StepErr(rho) == IF rho < 10 THEN -rho ELSE 20 - rho
FAddInterval(rho, x) == Time(x.f + 1, x.e + StepErr(rho))

\* lines 50-51: the deadline moves on whether or not the read succeeded.
AdvanceOnRead(rho, x, ret) == IF ret THEN FAddInterval(rho, x) ELSE x
Advance(rho, x, ret) == FAddInterval(rho, x)

\* The first float at or after the instant start + f/20 s.
Grid(rho, f) == Time(f, (20 - ((f * rho) % 20)) % 20)

\* What perf_counter() can read once the clock has reached x: x itself,
\* the first float at or after the twentieth of a second x lies at, or
\* the one after the next twentieth (the thread was late).
Readings(rho, x) ==
    {x, IF Before(x, Grid(rho, x.f)) THEN Grid(rho, x.f) ELSE x,
     Grid(rho, x.f + 1)}

\* line 46: end_t = next_frame_t + duration, exact.
end_t(duration) == Time(fps_target * duration, 0)

LoopInit ==
    /\ now = 0
    /\ mon = 1 /\ rec = 1 /\ rec_active = TRUE
    /\ ui = "idle"
    /\ events = <<>>
    /\ mons = [m \in MonIds |->
                 IF m = 1 THEN [st |-> "listening", running |-> TRUE,
                                threshold_db |-> SliderStart]
                 ELSE NoMon]
    /\ files = {File("v", 0)}
    /\ feed = NoFeed
    /\ slider = SliderStart
    /\ \E d \in LoopDurations, E \in LoopBinades :
         /\ recs = [r \in RecIds |->
                      IF r = 1
                        THEN [NoRec EXCEPT !.st = "capturing", !.duration = d,
                                           !.cap_opened = TRUE,
                                           !.stream = "open"]
                        ELSE NoRec]
         /\ loop = [pc |-> "test", E |-> E, rho |-> UlpMod(E),
                    duration |-> d, k |-> 0,
                    t |-> Time(0, 0), next_frame_t |-> Time(0, 0),
                    frames_written |-> 0, reads_ok |-> 0]

\* line 47: `while time.perf_counter() < end_t`.
LoopTest ==
    /\ loop.pc = "test"
    /\ \E c \in Readings(loop.rho, loop.t) :
         loop' = [loop EXCEPT
                    !.t = c,
                    !.pc = IF Before(c, end_t(loop.duration))
                             THEN "body" ELSE "exit"]
    /\ UNCHANGED <<feed, slider, now, mon, rec, rec_active, ui, events, mons,
                   recs, files>>

\* lines 48-53, one iteration: the read, the write of a frame that was
\* read, the deadline, and the sleep up to the deadline if it is still
\* ahead (time.sleep does not return early).
LoopBody ==
    /\ loop.pc = "body"
    /\ \E ret \in BOOLEAN, c \in Readings(loop.rho, loop.t) :
         LET deadline == Advance(loop.rho, loop.next_frame_t, ret) IN
         \E wake \in Readings(loop.rho, deadline) :
           loop' = [loop EXCEPT
                      !.pc = "test",
                      !.k = @ + 1,
                      !.frames_written = IF ret THEN @ + 1 ELSE @,
                      !.reads_ok = IF ret THEN @ + 1 ELSE @,
                      !.next_frame_t = deadline,
                      !.t = IF Before(c, deadline) THEN wake ELSE c]
    /\ UNCHANGED <<feed, slider, now, mon, rec, rec_active, ui, events, mons,
                   recs, files>>

LoopNext == LoopTest \/ LoopBody

SpecLoop == LoopInit /\ [][LoopNext]_vars

\* -------------------------------------- the shell, its slider, one monitor
\* The monitoring side alone: the user starts and stops monitoring and
\* moves the slider, the monitor threads run and hear blocks, the event
\* loop takes the posted spikes (Spec leaves the slider where line 83
\* puts it).
SliderMove == \E v \in Thresholds : set_slider(v)
SliderSpike == \E m \in MonIds : on_spike(m)

SliderNext ==
    \/ start_mon
    \/ stop_mon
    \/ stop_mon_return
    \/ SliderMove
    \/ MonStep
    \/ AudioBlock
    \/ SliderSpike

SpecSlider == Init /\ [][SliderNext]_vars

\* ================================================================ claims
ToolFailed(r) == recs[r].retime = "fail" \/ recs[r].mux = "fail"
Sessions == {r \in RecIds : InProgress(r)}

\* C1: at most one recording session is in progress at any time, rec_active
\* is true throughout it, and on_spike run while rec_active is true creates
\* no session (it changes no recorder).
C1_OneSession ==
    /\ [](/\ Cardinality(Sessions) <= 1
          /\ \A r \in Sessions : rec_active /\ rec = r)
    /\ [][\A m \in MonIds : (rec_active /\ on_spike(m)) => recs' = recs]_vars

\* C1's case: a session is in progress (on_spike started it) and another
\* spike is at the head of the event queue.
C1_Witness ==
    /\ \E r \in RecIds : recs[r].st = "capturing"
    /\ ui = "idle"
    /\ events # <<>> /\ Head(events).type = "spike"

\* C11: at most one AudioMonitor thread has an open input stream.
Listening == {m \in MonIds : mons[m].st = "listening"}

C11_OneMonitor == Cardinality(Listening) <= 1

\* C12: stop_mon, from its call to its return, leaves rec_active, rec and
\* every recorder as they are, and while the GUI thread is inside it the
\* thread of a session in progress can take its next step (but for a
\* finished_recording that finds the event queue of the model full).
C12_StopLeavesRecording ==
    /\ [][(stop_mon \/ stop_mon_return)
            => (rec_active' = rec_active /\ rec' = rec /\ recs' = recs)]_vars
    /\ [](\A r \in RecIds :
            (/\ ui = "stop_wait"
             /\ InProgress(r)
             /\ ~(recs[r].st = "cleaned" /\ Len(events) = MaxQueue))
               => ENABLED RecRun(r))

\* C12's case: the GUI thread is inside stop_mon while a session is
\* capturing and rec_active is true.
C12_Witness ==
    /\ ui = "stop_wait"
    /\ rec_active
    /\ \E r \in RecIds : rec = r /\ recs[r].st = "capturing"

C15_FramesAndDeadline ==
    /\ [](loop.pc # "none" =>
            /\ loop.frames_written = loop.reads_ok
            /\ loop.frames_written <= loop.k
            /\ loop.next_frame_t = Time(loop.k, loop.k * StepErr(loop.rho)))
    /\ [][(loop.pc = "body" /\ loop'.reads_ok = loop.reads_ok)
            => /\ loop'.pc = "test"
               /\ loop'.k = loop.k + 1
               /\ loop'.frames_written = loop.frames_written]_vars

\* C15's case: the loop has ended after reads that succeeded and reads
\* that failed.
C15_Witness ==
    /\ loop.pc = "exit"
    /\ loop.frames_written > 0
    /\ loop.frames_written < loop.k

\* C19: the capture loop begins at most fps_target * duration iterations
\* and frames_written never exceeds fps_target * duration (so that
\* actual_fps = frames_written / duration never exceeds fps_target).
C19_LoopBound ==
    loop.pc # "none" =>
      LET N == fps_target * loop.duration
          begun == loop.k + (IF loop.pc = "body" THEN 1 ELSE 0)
      IN  begun <= N /\ loop.frames_written <= N

\* C16: the muxing run is given vfix_<ts>.mp4 exactly when the retiming
\* run was invoked for the session and v_<ts>.mp4 otherwise, and always
\* a_<ts>.wav of the same session.
C16_MuxInputs ==
    \A r \in RecIds :
      recs[r].mux # "none" =>
        recs[r].mux_in =
          {File(IF recs[r].retime # "none" THEN "vfix" ELSE "v", recs[r].ts),
           File("a", recs[r].ts)}

\* C16's case: a session whose video was retimed has run its muxing.
C16_Witness ==
    \E r \in RecIds :
      /\ recs[r].st = "muxed" /\ recs[r].retime = "ok"
      /\ File("vfix", recs[r].ts) \in recs[r].mux_in

\* C17: once the finished_recording of a session whose muxing succeeded
\* has been handled, rec_active is false, and the next spike the event
\* loop handles starts a new session.
DonePending(r) ==
    \E i \in DOMAIN events : events[i].type = "done" /\ events[i].src = r
Completed(r) == recs[r].st = "done" /\ recs[r].mux = "ok" /\ ~DonePending(r)

C17_ResumeAfterRecording ==
    /\ [](\A r \in RecIds : (rec = r /\ Completed(r)) => ~rec_active)
    /\ [][\A m \in MonIds :
            (on_spike(m) /\ rec # 0 /\ Completed(rec))
               => (rec_active' /\ rec' # 0 /\ recs'[rec'].st = "started")]_vars

\* C17's case: a monitor is still listening, a first session has left its
\* final file, and a spike has started a second session.
C17_Witness ==
    /\ mon # 0 /\ mons[mon].st = "listening" /\ mons[mon].running
    /\ rec # 0 /\ recs[rec].st = "started" /\ rec_active
    /\ \E f \in files : f.kind = "sleep"

\* C18: the input stream of a monitor and the input stream of a recorder
\* are never open at the same time.
C18_OneAudioStream ==
    ~(Listening # {} /\ \E r \in RecIds : recs[r].stream = "open")

\* C20: the threshold of a monitor is the slider's value at its start_mon:
\* start_mon gives the new monitor the slider's current value, and no step
\* (a move of the slider included) changes the threshold of a monitor that
\* has been started and not yet joined.
Alive(m) == mons[m].st \in {"started", "listening", "finished"}

C20_ThresholdFixedAtStart ==
    /\ [][start_mon => mons'[mon'].threshold_db = slider]_vars
    /\ [][\A m \in MonIds :
            (Alive(m) /\ mons'[m].st # "joined")
               => mons'[m].threshold_db = mons[m].threshold_db]_vars

\* C20's case: a monitor is listening with the threshold it was started
\* with, the slider has been moved since, and a later start_mon has given
\* a second monitor the new value.
C20_Witness ==
    \E m, n \in MonIds :
      /\ mons[m].st = "listening" /\ mons[m].threshold_db = SliderStart
      /\ mons[n].st = "listening" /\ mons[n].threshold_db = slider
      /\ slider # SliderStart

\* C2: on_spike never runs for a spike of a monitor that has not been
\* started or whose StopMonitoring has returned.
C2_NoSpikeOutsideSession ==
    [][\A m \in MonIds : on_spike(m) => mons[m].st \notin {"none", "joined"}]_vars

\* C3: every StopMonitoring call (from the button or from closeEvent)
\* returns: the GUI thread does not stay in mon.wait().
C3_StopReturns ==
    (ui \in {"stop_wait", "close_wait"}) ~> (ui \in {"idle", "closed"})

\* C4: the blocks that raised spike_detected are exactly the blocks heard
\* while the monitor was running whose level is above threshold_db, one
\* event each, in order; levels [-40,-20,-10,-35] at threshold -30 fire at
\* indices 1 and 2 (indices from 0).
FiredIndices(heard) ==
    {i \in 0..(Len(heard) - 1) :
        heard[i + 1].active /\ heard[i + 1].db > heard[i + 1].th}

C4_SpikePerLoudBlock ==
    LET loud == FiredIndices(feed.heard)
    IN  /\ Len(feed.fired) = Cardinality(loud)
        /\ \A i \in DOMAIN feed.fired : feed.fired[i] \in loud
        /\ \A i, j \in DOMAIN feed.fired : i < j => feed.fired[i] < feed.fired[j]
        /\ (/\ Len(feed.heard) = 4
            /\ \A i \in 1..4 : feed.heard[i].active /\ feed.heard[i].th = -30
            /\ [i \in 1..4 |-> feed.heard[i].db] = <<-40, -20, -10, -35>>)
           => feed.fired = <<1, 2>>

C4_Witness ==
    /\ Len(feed.heard) = 4
    /\ \A i \in 1..4 : feed.heard[i].active /\ feed.heard[i].th = -30
    /\ [i \in 1..4 |-> feed.heard[i].db] = <<-40, -20, -10, -35>>
    /\ feed.fired = <<1, 2>>

\* C5: whenever a session has ended in a fatal error, rec_active is
\* eventually false again (unless the GUI thread has left its event loop:
\* the window was closed, or a StopMonitoring is under way).
C5_GateCleared ==
    (\E r \in RecIds : recs[r].st = "failed") ~> (~rec_active \/ ui # "idle")

\* C6: a session whose retiming or muxing run failed never emits
\* finished_recording.
C6_ToolFailureFails == \A r \in RecIds : ToolFailed(r) => recs[r].st # "done"

\* C7: once the retiming or muxing run of a session has failed, no
\* temporary file of the session that exists is deleted.
C7_TempsKept ==
    [][\A r \in RecIds :
         ToolFailed(r) => (TempFiles(recs[r].ts) \cap files) \subseteq files']_vars

\* C8: a session whose camera or audio device could not be opened fails
\* before its capture loop and has created no temporary file.
DeviceUnavailable(r) ==
    \/ recs[r].st \notin {"none", "started"} /\ ~recs[r].cap_opened
    \/ recs[r].stream = "unavailable"

C8_NoFilesWithoutDevice ==
    \A r \in RecIds :
      DeviceUnavailable(r) =>
        /\ recs[r].st \in {"opened", "failed"}
        /\ TempFiles(recs[r].ts) \cap files = {}

\* C9: retiming is invoked iff |n/d - 20| > 0.1, with the rate n/d (to four
\* decimals); d = 10, n = 180 retimes at 18.0000 and d = 10, n = 200 does
\* not retime.
C9_RetimeIffOff ==
    \A r \in RecIds :
      recs[r].st \in {"retimed", "adjusted"} =>
        LET d == recs[r].duration
            n == recs[r].frames_written
            invoked == recs[r].st = "retimed"
        IN  /\ invoked <=> 10 * Abs(n - fps_target * d) > d
            /\ invoked => 2 * Abs(recs[r].rate * d - n * 10000) <= d
            /\ (d = 10 /\ n = 180) => invoked /\ recs[r].rate = 180000
            /\ (d = 10 /\ n = 200) => ~invoked

\* C10: while the finished_recording of a session is on its way to the
\* shell, the path it carries is sleep_<ts>.mp4 of that session and, if the
\* muxing run succeeded, that file exists and none of v_<ts>.mp4,
\* vfix_<ts>.mp4, a_<ts>.wav does.
C10_CleanAfterMux ==
    /\ \A r \in RecIds :
         (recs[r].st \in {"cleaned", "done"} /\ recs[r].mux = "ok") =>
            /\ TempFiles(recs[r].ts) \cap files = {}
            /\ File("sleep", recs[r].ts) \in files
    /\ \A i \in DOMAIN events :
         events[i].type = "done" =>
            /\ recs[events[i].src].st = "done"
            /\ events[i].f = File("sleep", recs[events[i].src].ts)

\* C10's case: a session that retimed and muxed successfully has emitted
\* finished_recording, after an earlier session left its final file.
C10_Witness ==
    \E r \in RecIds :
      /\ recs[r].st = "done" /\ recs[r].mux = "ok" /\ recs[r].retime = "ok"
      /\ \E i \in DOMAIN events : events[i] = DoneEvent(r, File("sleep", recs[r].ts))
      /\ \E f \in files : f.kind = "sleep" /\ f.ts < recs[r].ts

====
